---------------------------- MODULE Spec2Model ----------------------------
(***************************************************************************)
(* Model of extract_fontsize_headings.py: the heading-inference pipeline   *)
(* (line reconstruction, header/footer filter, block merger, heading       *)
(* classifier) and the batch loop of main().                               *)
(*                                                                         *)
(* Encoding.  A Python str is a sequence of one-character strings, so that *)
(* strip(), lower(), endswith(), isnumeric(), len() and concatenation are  *)
(* computed as the code computes them.  Vertical positions (top, y) are    *)
(* integer points.  A glyph's size is in hundredths of a point; a line's   *)
(* size, after round(size, 1), is in tenths of a point.  A dict held in    *)
(* several lists (a line that is also the current block) is one cell of    *)
(* reconstructed_lines, and the other lists hold its index.                *)
(*                                                                         *)
(* Spec is extract_headings_by_fontsize on one document, from pdf.pages to *)
(* the returned dict.  SpecMain is main() on one directory, each call of   *)
(* extract_headings_by_fontsize taken by its outcome.                      *)
(***************************************************************************)
EXTENDS Integers, Sequences, FiniteSets, TLC

VARIABLES
    \* extract_headings_by_fontsize
    pages,                \* pdf.pages: for each page, page.chars as delivered
    y_tolerance,          \* the y_tolerance argument
    page_idx,             \* number of pages already reconstructed
    reconstructed_lines,  \* list of line dicts (the cells)
    main_content_lines,   \* list of references (indices) into the cells
    current_block,        \* reference to the open block, 0 when none
    line_i,               \* position of the merge loop in main_content_lines
    text_blocks,          \* list of references to flushed blocks
    potential_headings,   \* list of references to candidate blocks
    size_to_level_map,    \* function from candidate size to level
    used_headings,        \* set of <<normalized text, page>> keys
    title,
    outline,
    h_i,                  \* position of the outline loop
    default_level_used,   \* TRUE once .get(size, 'H4') fell back to 'H4'
    pc,                   \* position inside extract_headings_by_fontsize
    result,               \* the returned dict, NoResult before the return
    \* main
    listing,              \* os.listdir(input_dir)
    file02_exists,        \* os.path.exists("file02.pdf")
    corrupt,              \* the sources on which the PDF extractor raises
    files,                \* the list iterated by main
    input_dir,
    f_i,                  \* number of sources already handled
    written,              \* the open(json_path, "w") calls made, in order
    console,              \* the messages printed so far
    mpc                   \* position inside main

extractVars == <<pages, y_tolerance, page_idx, reconstructed_lines,
                 main_content_lines, current_block, line_i, text_blocks,
                 potential_headings, size_to_level_map, used_headings, title,
                 outline, h_i, default_level_used, pc, result>>

mainVars == <<listing, file02_exists, corrupt, files, input_dir, f_i, written,
              console, mpc>>

vars == <<extractVars, mainVars>>

---------------------------------------------------------------------------
(* Bounds of the model *)

MaxChars == 3      \* glyphs in one document (SpecLines)
MaxLines == 3      \* reconstructed lines in one document (SpecOutline)
MaxEntries == 3    \* directory entries seen by main (SpecMain)

(* Program constants *)

DefaultYTolerance == 2     \* y_tolerance=2
HeaderFooterTolerance == 3 \* tolerance=3
MinHeadingTextLength == 2  \* len(block['text']) > 2
DefaultLevelNumber == 4    \* 'H4'

---------------------------------------------------------------------------
(* Python primitives *)

Abs(n) == IF n < 0 THEN -n ELSE n

Min(S) == CHOOSE m \in S : \A n \in S : m <= n

\* round(n / d) for integers n and d > 0: nearest integer, halves to even.
RoundHalfEven(n, d) ==
    LET q == n \div d
        r == n % d
    IN  IF 2 * r < d THEN q
        ELSE IF 2 * r > d THEN q + 1
        ELSE IF q % 2 = 0 THEN q ELSE q + 1

\* round(size, 1): hundredths of a point to tenths of a point.  (The glyph
\* sizes of the inputs below are not halfway between two tenths, where a
\* binary float decides.)
Round1(size) == RoundHalfEven(size, 10)

Whitespace == {" "}

RECURSIVE LStrip(_)
LStrip(s) ==
    IF s = <<>> THEN s
    ELSE IF Head(s) \in Whitespace THEN LStrip(Tail(s)) ELSE s

RECURSIVE RStrip(_)
RStrip(s) ==
    IF s = <<>> THEN s
    ELSE IF s[Len(s)] \in Whitespace THEN RStrip(SubSeq(s, 1, Len(s) - 1)) ELSE s

\* str.strip()
Strip(s) == RStrip(LStrip(s))

LowerChar(c) ==
    CASE c = "A" -> "a"
      [] c = "B" -> "b"
      [] c = "C" -> "c"
      [] c = "D" -> "d"
      [] c = "F" -> "f"
      [] c = "P" -> "p"
      [] OTHER -> c

\* str.lower()
Lower(s) == [i \in DOMAIN s |-> LowerChar(s[i])]

Digits == {"0", "1", "2", "3", "4", "5", "6", "7", "8", "9"}

\* str.isnumeric()
IsNumeric(s) == s # <<>> /\ \A i \in DOMAIN s : s[i] \in Digits

ThoughtEnders == {".", ":", "?", "!"}

\* str.endswith(('.', ':', '?', '!'))
EndsWithEnder(s) == s # <<>> /\ s[Len(s)] \in ThoughtEnders

\* ''.join(texts)
RECURSIVE Join(_)
Join(texts) == IF texts = <<>> THEN <<>> ELSE Head(texts) \o Join(Tail(texts))

Count(seq, v) == Cardinality({i \in DOMAIN seq : seq[i] = v})

\* Counter(seq).most_common(1)[0][0]: the value of highest count, the one
\* inserted first (seen first) among equals.
MostCommon(seq) ==
    LET count == [i \in DOMAIN seq |-> Count(seq, seq[i])]
        best  == {i \in DOMAIN seq : \A j \in DOMAIN seq : count[j] <= count[i]}
    IN  seq[Min(best)]

Range(seq) == {seq[i] : i \in DOMAIN seq}

---------------------------------------------------------------------------
(* Line reconstruction, lines 37-77 *)

\* the sort key (c['top'], c['x0']) compared as Python compares tuples
KeyLess(a, b) == a.top < b.top \/ (a.top = b.top /\ a.x0 < b.x0)

RECURSIVE InsertSorted(_, _)
InsertSorted(c, s) ==
    IF s = <<>> THEN <<c>>
    ELSE IF KeyLess(c, Head(s)) THEN <<c>> \o s
    ELSE <<Head(s)>> \o InsertSorted(c, Tail(s))

RECURSIVE SortInto(_, _)
SortInto(cs, acc) ==
    IF cs = <<>> THEN acc ELSE SortInto(Tail(cs), InsertSorted(Head(cs), acc))

UnsortedChars(cs) == cs

\* sorted(page.chars, key=lambda c: (c['top'], c['x0'])): a stable sort
SortedChars(cs) == SortInto(cs, <<>>)

SameLineInverted(char, last, tol) == Abs(char.top - last.top) > tol

SameLineSelfCompared(char, last, tol) == Abs(char.top - char.top) <= tol

\* abs(char['top'] - current_line_chars[-1]['top']) <= y_tolerance
SameLine(char, last, tol) == Abs(char.top - last.top) <= tol

\* The loop of lines 44-61 and the final group of line 63: the groups
\* current_line_chars goes through, in order.
RECURSIVE GroupChars(_, _, _, _)
GroupChars(rest, cur, done, tol) ==
    IF rest = <<>> THEN done \o <<cur>>
    ELSE IF SameLine(Head(rest), cur[Len(cur)], tol)
         THEN GroupChars(Tail(rest), cur \o <<Head(rest)>>, done, tol)
         ELSE GroupChars(Tail(rest), <<Head(rest)>>, done \o <<cur>>, tol)

LineGroups(chars, tol) ==
    LET page_chars == SortedChars(chars)
    IN  IF page_chars = <<>> THEN <<>>
        ELSE GroupChars(Tail(page_chars), <<Head(page_chars)>>, <<>>, tol)

GroupTextUnstripped(g) == Join([i \in DOMAIN g |-> g[i].text])

\* ''.join([c['text'] for c in current_line_chars]).strip()
GroupText(g) == Strip(Join([i \in DOMAIN g |-> g[i].text]))

\* the dict appended at lines 54-60 and 68-74
MakeLine(g, p) ==
    [text     |-> GroupText(g),
     size     |-> MostCommon([i \in DOMAIN g |-> Round1(g[i].size)]),
     fontname |-> MostCommon([i \in DOMAIN g |-> g[i].fontname]),
     page     |-> p,
     y        |-> g[1].top]

\* if text: reconstructed_lines.append({...}), for each group in turn
RECURSIVE LinesOfGroups(_, _)
LinesOfGroups(gs, p) ==
    IF gs = <<>> THEN <<>>
    ELSE (IF GroupText(Head(gs)) # <<>> THEN <<MakeLine(Head(gs), p)>> ELSE <<>>)
         \o LinesOfGroups(Tail(gs), p)

\* the lines one page contributes; p is the 0-based page_idx of the code
PageLines(chars, p, tol) == LinesOfGroups(LineGroups(chars, tol), p)

RECURSIVE DocLines(_, _, _)
DocLines(ps, n, tol) ==
    IF n = 0 THEN <<>>
    ELSE DocLines(ps, n - 1, tol) \o PageLines(ps[n], n - 1, tol)

NoResult == [title |-> <<"(running)">>, outline |-> <<>>]
NoContentFound == <<"No Content Found">>
NoTitleFound == <<"No Title Found">>

ExtractIdle ==
    /\ pages = <<>> /\ y_tolerance = DefaultYTolerance /\ page_idx = 0
    /\ reconstructed_lines = <<>> /\ main_content_lines = <<>>
    /\ current_block = 0 /\ line_i = 0 /\ text_blocks = <<>>
    /\ potential_headings = <<>> /\ size_to_level_map = <<>>
    /\ used_headings = {} /\ title = <<>> /\ outline = <<>> /\ h_i = 0
    /\ default_level_used = FALSE /\ pc = "idle" /\ result = NoResult

MainIdle ==
    /\ listing = <<>> /\ file02_exists = FALSE /\ corrupt = {} /\ files = <<>>
    /\ input_dir = "./input" /\ f_i = 0 /\ written = <<>> /\ console = <<>>
    /\ mpc = "idle"

\* for page_idx, page in enumerate(pdf.pages): one page, lines 39-74
ReconstructPage ==
    /\ pc = "lines"
    /\ page_idx < Len(pages)
    /\ reconstructed_lines' =
           reconstructed_lines \o PageLines(pages[page_idx + 1], page_idx, y_tolerance)
    /\ page_idx' = page_idx + 1
    /\ UNCHANGED <<pages, y_tolerance, main_content_lines, current_block, line_i,
                   text_blocks, potential_headings, size_to_level_map,
                   used_headings, title, outline, h_i, default_level_used, pc,
                   result>>
    /\ UNCHANGED mainVars

\* if not reconstructed_lines: return No Content Found, lines 76-77
ReturnNoLines ==
    /\ pc = "lines"
    /\ page_idx = Len(pages)
    /\ reconstructed_lines = <<>>
    /\ result' = [title |-> NoContentFound, outline |-> <<>>]
    /\ pc' = "done"
    /\ UNCHANGED <<pages, y_tolerance, page_idx, reconstructed_lines,
                   main_content_lines, current_block, line_i, text_blocks,
                   potential_headings, size_to_level_map, used_headings, title,
                   outline, h_i, default_level_used>>
    /\ UNCHANGED mainVars

---------------------------------------------------------------------------
(* Header/footer filter, lines 6-23 and 79-83 *)

\* round(line['y'] / tolerance) * tolerance
RoundedY(y, tolerance) == RoundHalfEven(y, tolerance) * tolerance

\* the pages collected under key (text, rounded_y)
PagesOfKey(lines, text, rounded_y, tolerance) ==
    {lines[i].page : i \in {j \in DOMAIN lines :
                                /\ lines[j].text = text
                                /\ RoundedY(lines[j].y, tolerance) = rounded_y}}

FindCandidatesOnThreePages(lines, tolerance) ==
    {lines[i].text : i \in {j \in DOMAIN lines :
        Cardinality(PagesOfKey(lines, lines[j].text,
                               RoundedY(lines[j].y, tolerance), tolerance)) > 2}}

\* _find_header_footer_candidates(reconstructed_lines, tolerance=3)
FindHeaderFooterCandidates(lines, tolerance) ==
    {lines[i].text : i \in {j \in DOMAIN lines :
        Cardinality(PagesOfKey(lines, lines[j].text,
                               RoundedY(lines[j].y, tolerance), tolerance)) > 1}}

\* the references, in order, to the lines whose text is not in header_footer_text
RECURSIVE KeptLines(_, _, _)
KeptLines(lines, n, header_footer_text) ==
    IF n = 0 THEN <<>>
    ELSE KeptLines(lines, n - 1, header_footer_text)
         \o (IF lines[n].text \notin header_footer_text THEN <<n>> ELSE <<>>)

\* [line for line in reconstructed_lines if line['text'] not in header_footer_text]
MainContent(lines) ==
    KeptLines(lines, Len(lines),
              FindHeaderFooterCandidates(lines, HeaderFooterTolerance))

\* lines 80-88: filter, then seed the open block with the first kept line;
\* with nothing kept, text_blocks stays empty and line 105 returns.
Filter ==
    /\ pc = "lines"
    /\ page_idx = Len(pages)
    /\ reconstructed_lines # <<>>
    /\ main_content_lines' = MainContent(reconstructed_lines)
    /\ IF main_content_lines' = <<>>
       THEN /\ result' = [title |-> NoContentFound, outline |-> <<>>]
            /\ pc' = "done"
            /\ UNCHANGED <<current_block, line_i>>
       ELSE /\ current_block' = main_content_lines'[1]
            /\ line_i' = 2
            /\ pc' = "merge"
            /\ UNCHANGED result
    /\ UNCHANGED <<pages, y_tolerance, page_idx, reconstructed_lines, text_blocks,
                   potential_headings, size_to_level_map, used_headings, title,
                   outline, h_i, default_level_used>>
    /\ UNCHANGED mainVars

---------------------------------------------------------------------------
(* Block merger, lines 85-105 *)

\* line['size'] == current_block['size'] and line['fontname'] == current_block['fontname']
IsSameStyle(line, block) == line.size = block.size /\ line.fontname = block.fontname

\* line['page'] == current_block['page'] and
\* (line['y'] - current_block['y']) < (current_block['size'] * 1.5)
\* (y in points, size in tenths of a point)
IsConsecutive(line, block) ==
    /\ line.page = block.page
    /\ 20 * (line.y - block.y) < 3 * block.size

NeverEndsThought(block) == FALSE

\* current_block['text'].strip().endswith(('.', ':', '?', '!'))
EndsThought(block) == EndsWithEnder(Strip(block.text))

Merges(line, block) ==
    IsSameStyle(line, block) /\ IsConsecutive(line, block) /\ ~EndsThought(block)

\* lines 96-98: the line is appended to the open block, in place
MergeAppend ==
    /\ pc = "merge"
    /\ line_i <= Len(main_content_lines)
    /\ LET line  == reconstructed_lines[main_content_lines[line_i]]
           block == reconstructed_lines[current_block]
       IN  /\ Merges(line, block)
           /\ reconstructed_lines' =
                  [reconstructed_lines EXCEPT
                      ![current_block].text = @ \o <<" ">> \o line.text,
                      ![current_block].y = line.y]
    /\ line_i' = line_i + 1
    /\ UNCHANGED <<pages, y_tolerance, page_idx, main_content_lines, current_block,
                   text_blocks, potential_headings, size_to_level_map,
                   used_headings, title, outline, h_i, default_level_used, pc,
                   result>>
    /\ UNCHANGED mainVars

\* lines 99-101: the open block is flushed and the line opens the next one
MergeFlush ==
    /\ pc = "merge"
    /\ line_i <= Len(main_content_lines)
    /\ LET line  == reconstructed_lines[main_content_lines[line_i]]
           block == reconstructed_lines[current_block]
       IN  ~Merges(line, block)
    /\ text_blocks' = Append(text_blocks, current_block)
    /\ current_block' = main_content_lines[line_i]
    /\ line_i' = line_i + 1
    /\ UNCHANGED <<pages, y_tolerance, page_idx, reconstructed_lines,
                   main_content_lines, potential_headings, size_to_level_map,
                   used_headings, title, outline, h_i, default_level_used, pc,
                   result>>
    /\ UNCHANGED mainVars

\* line 102: the last open block is flushed
MergeEnd ==
    /\ pc = "merge"
    /\ line_i > Len(main_content_lines)
    /\ text_blocks' = Append(text_blocks, current_block)
    /\ pc' = "classify"
    /\ UNCHANGED <<pages, y_tolerance, page_idx, reconstructed_lines,
                   main_content_lines, current_block, line_i, potential_headings,
                   size_to_level_map, used_headings, title, outline, h_i,
                   default_level_used, result>>
    /\ UNCHANGED mainVars

---------------------------------------------------------------------------
(* Heading classifier, lines 107-152 *)

\* font_size_freq.most_common(1)[0][0] over [block['size'] for block in text_blocks]
MostCommonSize(blocks, cells) ==
    MostCommon([i \in DOMAIN blocks |-> cells[blocks[i]].size])

\* block['size'] > most_common_size and len(block['text']) > 2
IsPrimaryHeading(block, most_common_size) ==
    /\ block.size > most_common_size
    /\ Len(block.text) > MinHeadingTextLength

\* block['size'] >= most_common_size and len(block['text']) > 2
\*     and not block['text'].isnumeric()
IsFallbackHeading(block, most_common_size) ==
    /\ block.size >= most_common_size
    /\ Len(block.text) > MinHeadingTextLength
    /\ ~IsNumeric(block.text)

PrimaryHeadings(blocks, cells) ==
    SelectSeq(blocks,
              LAMBDA b : IsPrimaryHeading(cells[b], MostCommonSize(blocks, cells)))

PotentialHeadingsBySizeOnly(blocks, cells) ==
    IF PrimaryHeadings(blocks, cells) # <<>>
    THEN PrimaryHeadings(blocks, cells)
    ELSE SelectSeq(blocks,
                   LAMBDA b : cells[b].size >= MostCommonSize(blocks, cells))

\* lines 115-125
PotentialHeadings(blocks, cells) ==
    IF PrimaryHeadings(blocks, cells) # <<>>
    THEN PrimaryHeadings(blocks, cells)
    ELSE SelectSeq(blocks,
                   LAMBDA b : IsFallbackHeading(cells[b], MostCommonSize(blocks, cells)))

Max(S) == CHOOSE m \in S : \A n \in S : n <= m

RECURSIVE SortedAscending(_)
SortedAscending(S) ==
    IF S = {} THEN <<>> ELSE <<Min(S)>> \o SortedAscending(S \ {Min(S)})

\* sorted(list({...}), reverse=True)
RECURSIVE SortedDescending(_)
SortedDescending(S) ==
    IF S = {} THEN <<>> ELSE <<Max(S)>> \o SortedDescending(S \ {Max(S)})

\* f"H{n}"
Level(n) == <<"H", n>>

LevelNumber(level) == level[2]

\* 'H4', the default of size_to_level_map.get
DefaultLevel == Level(DefaultLevelNumber)

\* {size: f"H{i+1}" for i, size in enumerate(heading_sizes)}
SizeToLevelMap(heading_sizes) ==
    [size \in Range(heading_sizes) |->
        Level(CHOOSE i \in DOMAIN heading_sizes : heading_sizes[i] = size)]

\* (text.strip().lower(), page)
HeadingKey(text, page) == <<Lower(Strip(text)), page>>

NoSeed(title_text, page) == {}

\* used_headings = {(title.strip().lower(), title_block['page'])}
UsedSeed(title_text, page) == {HeadingKey(title_text, page)}

\* lines 108-141 when candidates exist: title, level map, seeded used set
Classify ==
    /\ pc = "classify"
    /\ potential_headings' = PotentialHeadings(text_blocks, reconstructed_lines)
    /\ potential_headings' # <<>>
    /\ LET title_block == reconstructed_lines[potential_headings'[1]]
           heading_sizes ==
               SortedDescending({reconstructed_lines[h].size :
                                    h \in Range(potential_headings')})
       IN  /\ title' = title_block.text
           /\ size_to_level_map' = SizeToLevelMap(heading_sizes)
           /\ used_headings' = UsedSeed(title_block.text, title_block.page)
    /\ h_i' = 1
    /\ pc' = "outline"
    /\ UNCHANGED <<pages, y_tolerance, page_idx, reconstructed_lines,
                   main_content_lines, current_block, line_i, text_blocks,
                   outline, default_level_used, result>>
    /\ UNCHANGED mainVars

\* lines 108-131 and 152 when neither selection yields a candidate
ReturnNoTitle ==
    /\ pc = "classify"
    /\ PotentialHeadings(text_blocks, reconstructed_lines) = <<>>
    /\ title' = NoTitleFound
    /\ result' = [title |-> NoTitleFound, outline |-> <<>>]
    /\ pc' = "done"
    /\ UNCHANGED <<pages, y_tolerance, page_idx, reconstructed_lines,
                   main_content_lines, current_block, line_i, text_blocks,
                   potential_headings, size_to_level_map, used_headings, outline,
                   h_i, default_level_used>>
    /\ UNCHANGED mainVars

\* lines 143-146: the candidate's key was used already
OutlineSkip ==
    /\ pc = "outline"
    /\ h_i <= Len(potential_headings)
    /\ LET block == reconstructed_lines[potential_headings[h_i]]
       IN  HeadingKey(block.text, block.page) \in used_headings
    /\ h_i' = h_i + 1
    /\ UNCHANGED <<pages, y_tolerance, page_idx, reconstructed_lines,
                   main_content_lines, current_block, line_i, text_blocks,
                   potential_headings, size_to_level_map, used_headings, title,
                   outline, default_level_used, pc, result>>
    /\ UNCHANGED mainVars

\* lines 143-150: the candidate becomes an outline entry
OutlineEmit ==
    /\ pc = "outline"
    /\ h_i <= Len(potential_headings)
    /\ LET block == reconstructed_lines[potential_headings[h_i]]
           key   == HeadingKey(block.text, block.page)
           known == block.size \in DOMAIN size_to_level_map
           level == IF known THEN size_to_level_map[block.size] ELSE DefaultLevel
       IN  /\ key \notin used_headings
           /\ outline' = Append(outline, [level |-> level, text |-> block.text,
                                          page |-> block.page])
           /\ used_headings' = used_headings \cup {key}
           /\ default_level_used' = (default_level_used \/ ~known)
    /\ h_i' = h_i + 1
    /\ UNCHANGED <<pages, y_tolerance, page_idx, reconstructed_lines,
                   main_content_lines, current_block, line_i, text_blocks,
                   potential_headings, size_to_level_map, title, pc, result>>
    /\ UNCHANGED mainVars

\* line 152
ReturnOutline ==
    /\ pc = "outline"
    /\ h_i > Len(potential_headings)
    /\ result' = [title |-> title, outline |-> outline]
    /\ pc' = "done"
    /\ UNCHANGED <<pages, y_tolerance, page_idx, reconstructed_lines,
                   main_content_lines, current_block, line_i, text_blocks,
                   potential_headings, size_to_level_map, used_headings, title,
                   outline, h_i, default_level_used>>
    /\ UNCHANGED mainVars

---------------------------------------------------------------------------
(* Inputs of extract_headings_by_fontsize *)

PageIndices == {0, 1}
NumberOfPages == Cardinality(PageIndices)

BoundedSeq(S, n) == UNION {[1..k -> S] : k \in 0..n}

\* Documents of a few glyphs, any order, any position.
GlyphKinds ==
    { [text |-> <<"a">>, size |-> 1196, fontname |-> "F"],
      [text |-> <<" ">>, size |-> 1604, fontname |-> "G"] }
GlyphTops == {0, 2, 4}
GlyphX0s == {0, 1}

Glyph(kind, top, x0) ==
    [text |-> kind.text, top |-> top, x0 |-> x0, size |-> kind.size,
     fontname |-> kind.fontname]

Glyphs == {Glyph(k, t, x) : k \in GlyphKinds, t \in GlyphTops, x \in GlyphX0s}

Tolerances == 0..(DefaultYTolerance + 1)

\* the ways to cut n glyphs into consecutive pages
Cuts(n) == {c \in [0..NumberOfPages -> 0..n] :
               /\ c[0] = 0
               /\ c[NumberOfPages] = n
               /\ \A p \in 1..NumberOfPages : c[p - 1] <= c[p]}

PagesOfCut(flat, c) ==
    [p \in 1..NumberOfPages |-> SubSeq(flat, c[p - 1] + 1, c[p])]

ExtractStart ==
    /\ page_idx = 0 /\ reconstructed_lines = <<>> /\ main_content_lines = <<>>
    /\ current_block = 0 /\ line_i = 0 /\ text_blocks = <<>>
    /\ potential_headings = <<>> /\ size_to_level_map = <<>>
    /\ used_headings = {} /\ title = <<>> /\ outline = <<>> /\ h_i = 0
    /\ default_level_used = FALSE /\ pc = "lines" /\ result = NoResult

InitGlyphs ==
    /\ \E flat \in BoundedSeq(Glyphs, MaxChars) :
           \E c \in Cuts(Len(flat)) : pages = PagesOfCut(flat, c)
    /\ y_tolerance = DefaultYTolerance
    /\ ExtractStart
    /\ MainIdle

\* Documents typeset from a few lines of text: each line in one style, its
\* glyphs on one baseline, left to right.
LineTexts == { <<"A", "b", "c">>, <<"a", "b", "c">>, <<"a", "b", ".">>, <<"1", "2">> }
LineSizes == {996, 1204, 1396}
LineKinds ==
    [text : {<<"a", "b", "c">>}, size : LineSizes, fontname : {"F"}]
    \cup [text : LineTexts, size : {1396}, fontname : {"F"}]
    \cup [text : {<<"a", "b", "c">>}, size : {1396}, fontname : {"G"}]
LineTops == {0, 1, 16}
LinePositions == PageIndices \X LineTops

PositionBefore(a, b) ==
    \/ a[1] < b[1]
    \/ a[1] = b[1] /\ b[2] - a[2] > DefaultYTolerance

PositionSeqs(n) ==
    {ps \in [1..n -> LinePositions] :
        \A i \in 1..(n - 1) : PositionBefore(ps[i], ps[i + 1])}

TypesetLine(kind, top) ==
    [k \in 1..Len(kind.text) |->
        [text |-> <<kind.text[k]>>, top |-> top, x0 |-> k, size |-> kind.size,
         fontname |-> kind.fontname]]

RECURSIVE TypesetPage(_, _, _, _)
TypesetPage(kinds, ps, n, p) ==
    IF n = 0 THEN <<>>
    ELSE TypesetPage(kinds, ps, n - 1, p)
         \o (IF ps[n][1] = p THEN TypesetLine(kinds[n], ps[n][2]) ELSE <<>>)

InitTypeset ==
    /\ \E n \in 1..MaxLines :
           \E ps \in PositionSeqs(n) :
               \E kinds \in [1..n -> LineKinds] :
                   pages = [p \in 1..NumberOfPages |-> TypesetPage(kinds, ps, n, p - 1)]
    /\ y_tolerance = DefaultYTolerance
    /\ ExtractStart
    /\ MainIdle

Init == InitGlyphs \/ InitTypeset

Next ==
    \/ ReconstructPage
    \/ ReturnNoLines
    \/ Filter
    \/ MergeAppend
    \/ MergeFlush
    \/ MergeEnd
    \/ Classify
    \/ ReturnNoTitle
    \/ OutlineSkip
    \/ OutlineEmit
    \/ ReturnOutline

Spec == Init /\ [][Next]_vars

---------------------------------------------------------------------------
(* main, lines 155-182.  The call of extract_headings_by_fontsize is taken *)
(* by its outcome: it returns a result, or the extractor raises.           *)

\* str.endswith(suffix)
EndsWith(s, suffix) ==
    /\ Len(s) >= Len(suffix)
    /\ SubSeq(s, Len(s) - Len(suffix) + 1, Len(s)) = suffix

PdfSuffix == <<".", "p", "d", "f">>
JsonSuffix == <<".", "j", "s", "o", "n">>

\* f.lower().endswith(".pdf")
IsPdfName(f) == EndsWith(Lower(f), PdfSuffix)

\* os.path.splitext(filename)[0]: up to the last dot, leading dots apart
SplitExtRoot(f) ==
    LET dots == {i \in DOMAIN f : f[i] = "." /\ \E j \in 1..(i - 1) : f[j] # "."}
    IN  IF dots = {} THEN f ELSE SubSeq(f, 1, Max(dots) - 1)

\* os.path.join(directory, filename)
PathJoin(directory, filename) == <<directory, filename>>

OutputDir == "./output"

\* json_path of a source, lines 172-173
JsonPath(filename) == PathJoin(OutputDir, SplitExtRoot(filename) \o JsonSuffix)

File02 == <<"f", "i", "l", "e", "0", "2", ".", "p", "d", "f">>

\* lines 158-165
MainStart ==
    /\ mpc = "start"
    /\ LET pdfs == SelectSeq(listing, IsPdfName)
       IN  IF pdfs = <<>> /\ file02_exists
           THEN /\ files' = <<File02>>
                /\ input_dir' = "."
                /\ mpc' = "loop"
                /\ UNCHANGED console
           ELSE IF pdfs = <<>>
           THEN /\ console' = Append(console, <<"No PDF files found", input_dir>>)
                /\ mpc' = "done"
                /\ UNCHANGED <<files, input_dir>>
           ELSE /\ files' = pdfs
                /\ mpc' = "loop"
                /\ UNCHANGED <<input_dir, console>>
    /\ UNCHANGED <<listing, file02_exists, corrupt, f_i, written>>
    /\ UNCHANGED extractVars

ExtractResults ==
    { [title |-> NoContentFound, outline |-> <<>>],
      [title |-> <<"a", "b", "c">>, outline |-> <<>>] }

\* lines 168-179: extraction returns, the JSON file is written whole
ProcessSaved ==
    /\ mpc = "loop"
    /\ f_i < Len(files)
    /\ LET filename == files[f_i + 1]
       IN  /\ filename \notin corrupt
           /\ \E r \in ExtractResults :
                  written' = Append(written,
                                    [path |-> JsonPath(filename),
                                     source |-> PathJoin(input_dir, filename),
                                     content |-> r])
           /\ console' = console \o << <<"Processing", filename>>,
                                       <<"Saved", JsonPath(filename)>> >>
    /\ f_i' = f_i + 1
    /\ UNCHANGED <<listing, file02_exists, corrupt, files, input_dir, mpc>>
    /\ UNCHANGED extractVars

ExtractionFailureUncaught ==
    /\ mpc = "loop"
    /\ f_i < Len(files)
    /\ files[f_i + 1] \in corrupt
    /\ console' = Append(console, <<"Processing", files[f_i + 1]>>)
    /\ mpc' = "done"
    /\ UNCHANGED <<listing, file02_exists, corrupt, files, input_dir, f_i, written>>
    /\ UNCHANGED extractVars

\* lines 168-171 and 181-182: the extractor raises, the except clause reports
ExtractionFailure ==
    /\ mpc = "loop"
    /\ f_i < Len(files)
    /\ LET filename == files[f_i + 1]
       IN  /\ filename \in corrupt
           /\ console' = console \o << <<"Processing", filename>>,
                                       <<"Error processing", filename, "extract">> >>
    /\ f_i' = f_i + 1
    /\ UNCHANGED <<listing, file02_exists, corrupt, files, input_dir, written, mpc>>
    /\ UNCHANGED extractVars

\* lines 175 and 181-182: open(json_path, "w") raises, nothing is created
OpenFailure ==
    /\ mpc = "loop"
    /\ f_i < Len(files)
    /\ LET filename == files[f_i + 1]
       IN  /\ filename \notin corrupt
           /\ console' = console \o << <<"Processing", filename>>,
                                       <<"Error processing", filename, "open">> >>
    /\ f_i' = f_i + 1
    /\ UNCHANGED <<listing, file02_exists, corrupt, files, input_dir, written, mpc>>
    /\ UNCHANGED extractVars

\* lines 175-176 and 181-182: json.dump raises on the opened file
DumpFailure ==
    /\ mpc = "loop"
    /\ f_i < Len(files)
    /\ LET filename == files[f_i + 1]
       IN  /\ filename \notin corrupt
           /\ written' = Append(written,
                                [path |-> JsonPath(filename),
                                 source |-> PathJoin(input_dir, filename),
                                 content |-> "partial"])
           /\ console' = console \o << <<"Processing", filename>>,
                                       <<"Error processing", filename, "dump">> >>
    /\ f_i' = f_i + 1
    /\ UNCHANGED <<listing, file02_exists, corrupt, files, input_dir, mpc>>
    /\ UNCHANGED extractVars

\* the for loop of line 167 is exhausted
MainEnd ==
    /\ mpc = "loop"
    /\ f_i = Len(files)
    /\ mpc' = "done"
    /\ UNCHANGED <<listing, file02_exists, corrupt, files, input_dir, f_i, written,
                   console>>
    /\ UNCHANGED extractVars

EntryNames ==
    { <<"a", ".", "p", "d", "f">>, <<"a", ".", "P", "D", "F">>,
      <<"b", ".", "p", "d", "f">>, <<"n", ".", "t", "x", "t">> }

Listings ==
    {l \in BoundedSeq(EntryNames, MaxEntries) :
        \A i, j \in DOMAIN l : i # j => l[i] # l[j]}

InitMain ==
    /\ listing \in Listings
    /\ file02_exists \in BOOLEAN
    /\ corrupt \in SUBSET (Range(listing) \cup {File02})
    /\ files = <<>> /\ input_dir = "./input" /\ f_i = 0 /\ written = <<>>
    /\ console = <<>> /\ mpc = "start"
    /\ ExtractIdle

NextMain ==
    \/ MainStart
    \/ ProcessSaved
    \/ ExtractionFailure
    \/ OpenFailure
    \/ DumpFailure
    \/ MainEnd

SpecMain == InitMain /\ [][NextMain]_vars

---------------------------------------------------------------------------
(* Properties *)

Cell(i) == reconstructed_lines[i]

\* Filter has run and no block has been extended yet: the cells still hold
\* the reconstructed lines.
FilterJustRan ==
    /\ reconstructed_lines # <<>>
    /\ \/ pc = "merge" /\ line_i = 2
       \/ pc = "done" /\ main_content_lines = <<>>

Kept(i) == i \in Range(main_content_lines)

PagesWithText(text) ==
    {Cell(j).page : j \in {k \in DOMAIN reconstructed_lines : Cell(k).text = text}}

\* the text stands in one rounded y-bucket on two distinct pages
Recurs(text) ==
    \E j, k \in DOMAIN reconstructed_lines :
        /\ Cell(j).text = text /\ Cell(k).text = text
        /\ Cell(j).page # Cell(k).page
        /\ RoundHalfEven(Cell(j).y, 3) * 3 = RoundHalfEven(Cell(k).y, 3) * 3

\* C1: after the header/footer filter, a line whose text occurs on exactly one
\* page is kept in main_content_lines, and a line whose text occurs in one
\* rounded y-bucket on two distinct pages is removed wherever it stands.
C1_HeaderFooterSymmetry ==
    FilterJustRan =>
        \A i \in DOMAIN reconstructed_lines :
            /\ Cardinality(PagesWithText(Cell(i).text)) = 1 => Kept(i)
            /\ Recurs(Cell(i).text) => ~Kept(i)

\* a recurring text also stands in another y-bucket, and is removed there too
C1_Witness ==
    /\ FilterJustRan
    /\ \E i, j \in DOMAIN reconstructed_lines :
           /\ Cell(i).text = Cell(j).text
           /\ Recurs(Cell(i).text)
           /\ RoundHalfEven(Cell(i).y, 3) # RoundHalfEven(Cell(j).y, 3)
           /\ ~Kept(i) /\ ~Kept(j)

\* the step that appends the line at line_i to the open block
AppendStep ==
    /\ pc = "merge" /\ pc' = "merge"
    /\ line_i' = line_i + 1
    /\ text_blocks' = text_blocks

\* C2: every line appended to a block is on the block's page, has the block's
\* size and fontname, and the block's trimmed text did not yet end with one of
\* . : ? !
C2_MergeTermination ==
    [][AppendStep =>
          LET line  == Cell(main_content_lines[line_i])
              block == Cell(current_block)
              text  == Strip(block.text)
          IN  /\ line.page = block.page
              /\ line.size = block.size
              /\ line.fontname = block.fontname
              /\ ~(text # <<>> /\ text[Len(text)] \in {".", ":", "?", "!"})]_vars

\* two blocks, one of them merged from two lines
C2_Witness ==
    /\ pc = "classify"
    /\ Len(text_blocks) >= 2
    /\ \E b \in Range(text_blocks) : " " \in Range(Cell(b).text)

CandidateSizes == {Cell(h).size : h \in Range(potential_headings)}

AssignedLevel(size) ==
    IF size \in DOMAIN size_to_level_map THEN size_to_level_map[size] ELSE DefaultLevel

Classified == pc \in {"outline", "done"} /\ potential_headings # <<>>

\* C3: a larger candidate size has a strictly smaller level number, equal
\* sizes have equal levels, and the level number of a size is one more than
\* the number of distinct candidate sizes above it (largest H1, next H2, ...).
C3_LevelMonotone ==
    Classified =>
        \A s1, s2 \in CandidateSizes :
            /\ s1 > s2 => LevelNumber(AssignedLevel(s1)) < LevelNumber(AssignedLevel(s2))
            /\ s1 = s2 => AssignedLevel(s1) = AssignedLevel(s2)
            /\ AssignedLevel(s1) =
                   <<"H", 1 + Cardinality({s \in CandidateSizes : s > s1})>>

\* two candidate sizes, and the smaller one is in the outline as H2
C3_Witness ==
    /\ pc = "done"
    /\ Cardinality(CandidateSizes) >= 2
    /\ \E i \in DOMAIN outline : outline[i].level = <<"H", 2>>

TitlePage == Cell(potential_headings[1]).page

\* C4: no outline entry has the (lowercased trimmed text, page) key of the title.
C4_TitleExcluded ==
    Classified =>
        \A i \in DOMAIN outline :
            <<Lower(Strip(outline[i].text)), outline[i].page>>
                # <<Lower(Strip(title)), TitlePage>>

\* a second candidate on the title's page has the title's normalized text but
\* not its text, and the outline is not empty
C4_Witness ==
    /\ pc = "done"
    /\ outline # <<>>
    /\ \E k \in 2..Len(potential_headings) :
           LET block == Cell(potential_headings[k])
           IN  /\ block.page = TitlePage
               /\ block.text # title
               /\ Lower(Strip(block.text)) = Lower(Strip(title))

\* every glyph of every page is whitespace (no glyph at all included)
BlankInput ==
    \A p \in DOMAIN pages : \A i \in DOMAIN pages[p] : Strip(pages[p][i].text) = <<>>

\* C5: on an input without a non-whitespace glyph the function never goes past
\* line reconstruction, and what it returns is exactly title "No Content
\* Found" with an empty outline.
C5_NoContent ==
    BlankInput =>
        /\ pc \in {"lines", "done"}
        /\ pc = "done" => result = [title |-> <<"No Content Found">>, outline |-> <<>>]

\* returned on an input that has whitespace glyphs
C5_Witness ==
    /\ BlankInput
    /\ \E p \in DOMAIN pages : pages[p] # <<>>
    /\ pc = "done"

\* no block is larger than the most common size and longer than 2
NoPrimaryHeading ==
    \A b \in Range(text_blocks) :
        ~(/\ Cell(b).size > MostCommonSize(text_blocks, reconstructed_lines)
          /\ Len(Cell(b).text) > 2)

\* C10: under the fallback selection every candidate has the most common
\* size and every outline entry is H1; and the 'H4' default is never used.
C10_FallbackAllH1 ==
    /\ ~default_level_used
    /\ (Classified /\ NoPrimaryHeading) =>
           /\ \A h \in Range(potential_headings) :
                  Cell(h).size = MostCommonSize(text_blocks, reconstructed_lines)
           /\ \A i \in DOMAIN outline : outline[i].level = <<"H", 1>>

\* fallback used although a (short) block is larger than the most common size,
\* and the outline has an entry
C10_Witness ==
    /\ pc = "done"
    /\ potential_headings # <<>>
    /\ NoPrimaryHeading
    /\ outline # <<>>
    /\ \E b \in Range(text_blocks) :
           Cell(b).size > MostCommonSize(text_blocks, reconstructed_lines)

AllPagesDone == pc = "lines" /\ page_idx = Len(pages)

\* the groups of characters behind the reconstructed lines
LineGroupsOfPages ==
    UNION {{g \in Range(LineGroups(pages[p], y_tolerance)) : GroupText(g) # <<>>} :
              p \in DOMAIN pages}

\* C7 as claimed: any two characters of one Line are within y_tolerance.
C7_AllWithinTolerance ==
    AllPagesDone =>
        \A g \in LineGroupsOfPages :
            \A i, j \in DOMAIN g : Abs(g[i].top - g[j].top) <= y_tolerance

\* C7: in every reconstructed Line, each contributing character is within
\* y_tolerance of the one before it in (top, x0) order; any two characters of a
\* Line of n characters are within (n - 1) * y_tolerance.
C7_AdjacentWithinTolerance ==
    AllPagesDone =>
        \A g \in LineGroupsOfPages :
            /\ \A i \in 1..(Len(g) - 1) :
                   /\ ~KeyLess(g[i + 1], g[i])
                   /\ Abs(g[i + 1].top - g[i].top) <= y_tolerance
            /\ \A i, j \in DOMAIN g :
                   Abs(g[i].top - g[j].top) <= (Len(g) - 1) * y_tolerance

\* a Line whose first and last characters are further apart than y_tolerance
C7_Witness ==
    /\ AllPagesDone
    /\ \E g \in LineGroupsOfPages : g[Len(g)].top - g[1].top > y_tolerance

\* the number of Lines each tolerance yields on the pages
LineCounts == [t \in Tolerances |-> Len(DocLines(pages, Len(pages), t))]

\* C8: with the characters fixed, a larger y_tolerance never yields more Lines
\* (whitespace-only groups discarded); the Lines built are those of y_tolerance.
C8_ToleranceMonotone ==
    AllPagesDone =>
        \A n \in {LineCounts} :
            /\ Len(reconstructed_lines) = n[y_tolerance]
            /\ \A t1, t2 \in Tolerances : t1 <= t2 => n[t2] <= n[t1]

\* a larger tolerance yields strictly fewer Lines, a whitespace glyph present
C8_Witness ==
    /\ AllPagesDone
    /\ \E p \in DOMAIN pages : \E i \in DOMAIN pages[p] : Strip(pages[p][i].text) = <<>>
    /\ \E n \in {LineCounts} :
           \E t1, t2 \in Tolerances : t1 < t2 /\ 0 < n[t2] /\ n[t2] < n[t1]

\* the input with the characters at k and k + 1 exchanged
Exchanged(chars, k) == [chars EXCEPT ![k] = chars[k + 1], ![k + 1] = chars[k]]

\* the (top, x0) sort precondition
IsSorted(chars) == \A i, j \in DOMAIN chars : i < j => ~KeyLess(chars[j], chars[i])

\* characters with equal top and x0 are equal altogether
TiesAreEqual(chars) ==
    \A i, j \in DOMAIN chars :
        (chars[i].top = chars[j].top /\ chars[i].x0 = chars[j].x0) => chars[i] = chars[j]

LinesOfPage(p) == SelectSeq(reconstructed_lines, LAMBDA line : line.page = p - 1)

\* C9 as claimed: two orderings of a page's characters that both satisfy the
\* sort precondition yield the same Lines, ties in (top, x0) included.  (Two
\* sorted orderings differ by exchanges of neighbours that tie.)
C9_OrderIndependent ==
    AllPagesDone =>
        \A p \in DOMAIN pages :
            IsSorted(pages[p]) =>
                \A k \in 1..(Len(pages[p]) - 1) :
                    IsSorted(Exchanged(pages[p], k)) =>
                        PageLines(Exchanged(pages[p], k), p - 1, y_tolerance)
                            = LinesOfPage(p)

\* C9: on a page whose characters with equal top and x0 are equal, exchanging
\* two neighbours of the input, sorted or not, leaves the Lines unchanged; so,
\* exchange after exchange, any two orderings of the page yield the same Lines.
C9_OrderIndependentUpToTies ==
    AllPagesDone =>
        \A p \in DOMAIN pages :
            TiesAreEqual(pages[p]) =>
                \A k \in 1..(Len(pages[p]) - 1) :
                    PageLines(Exchanged(pages[p], k), p - 1, y_tolerance)
                        = LinesOfPage(p)

\* a page given out of order, with a tie of equal characters, that yields a Line
C9_Witness ==
    /\ AllPagesDone
    /\ \E p \in DOMAIN pages :
           /\ TiesAreEqual(pages[p])
           /\ ~IsSorted(pages[p])
           /\ \E i, j \in DOMAIN pages[p] : i # j /\ pages[p][i] = pages[p][j]
           /\ LinesOfPage(p) # <<>>

Printed(message) == message \in Range(console)

WrittenFor(filename) ==
    \E i \in DOMAIN written : written[i].source = PathJoin(input_dir, filename)

\* C6: each source handled so far was announced; a source whose extraction
\* failed has its error reported and no output file written for it; and main
\* ends only after every source of the list was handled.
C6_BatchContinues ==
    /\ \A i \in 1..f_i : Printed(<<"Processing", files[i]>>)
    /\ \A i \in 1..f_i :
           files[i] \in corrupt =>
               /\ Printed(<<"Error processing", files[i], "extract">>)
               /\ ~WrittenFor(files[i])
    /\ mpc = "done" => f_i = Len(files)

\* a failed source, then a later one whose output was written
C6_Witness ==
    /\ mpc = "done"
    /\ \E i, j \in DOMAIN files :
           /\ i < j
           /\ files[i] \in corrupt
           /\ files[j] \notin corrupt
           /\ WrittenFor(files[j])

=============================================================================
